---------------------------- MODULE Spec2Model ----------------------------
(***************************************************************************)
(* PyModuleSnooper (sitecustomize.py): an atexit callback that logs the    *)
(* paths of all loaded modules as one JSON line in a per-process file.     *)
(*                                                                         *)
(* A Python str is a string, handled character by character.  The file     *)
(* system is a set of directories and a table of files, each known by the  *)
(* sequence of names that leads to it from the root; a path str is walked  *)
(* to such a sequence the way the kernel walks it.                         *)
(***************************************************************************)
EXTENDS Integers, Sequences, FiniteSets, TLC

\* ------------------------------------------------------------------ bounds
NProcs == 2
MaxRank == 1

Procs == 1..NProcs
Pids == {4242, 4243}
Hosts == {"node07"}
Microseconds == {7, 123456}
Nows == {[year |-> 2024, month |-> 3, day |-> 1, hour |-> 9, minute |-> 15,
          second |-> 22, microsecond |-> us] : us \in Microseconds}

\* ------------------------------------------------------------ Python values
Unset == "<unset>"
NoTime == [year |-> 0, month |-> 0, day |-> 0, hour |-> 0, minute |-> 0,
           second |-> 0, microsecond |-> 0]
PyNone == [t |-> "None", v |-> ""]
PyObject == [t |-> "object", v |-> ""]
NoAttr == [t |-> "<no attribute>", v |-> ""]
PyStr(s) == [t |-> "str", v |-> s]

Char(s, i) == SubSeq(s, i, i)
Range(s) == {s[i] : i \in 1..Len(s)}
Front(s) == SubSeq(s, 1, Len(s) - 1)
Last(s) == s[Len(s)]
startswith(s, prefix) ==
    Len(s) >= Len(prefix) /\ SubSeq(s, 1, Len(prefix)) = prefix
endswith(s, suffix) ==
    Len(s) >= Len(suffix) /\ SubSeq(s, Len(s) - Len(suffix) + 1, Len(s)) = suffix

\* os.environ.get('DISABLE_PYMODULE_SNOOP', False) used as a condition: the
\* default False when the variable is unset, else truth of the str (non-empty).
EnvValues == {Unset, "", "0"}
DisableRequested(value) == value # Unset /\ value # ""

\* COBALT_JOBID: unset, empty, with a separator in it, an absolute path, the
\* parent directory; a job number.
JobValues == {Unset, "", "a/b", "/scratch/snoop", ".."}
JobNumber == "12345"
\* os.environ.get('COBALT_JOBID', 'no-ID')
job_id(value) == IF value = Unset THEN "no-ID" ELSE value

\* ------------------------------------------------------------------- MPI
\* sys.modules['mpi4py'] as the callback finds it: not loaded, loaded without
\* its MPI attribute, or loaded with MPI in some state of the runtime.
MPIStates ==
    {[mod |-> "absent", initialized |-> FALSE, finalized |-> FALSE, rank |-> 0],
     [mod |-> "no MPI attribute", initialized |-> FALSE, finalized |-> FALSE, rank |-> 0]}
    \cup {[mod |-> "MPI", initialized |-> FALSE, finalized |-> FALSE, rank |-> 0]}
    \cup {[mod |-> "MPI", initialized |-> TRUE, finalized |-> f, rank |-> r] :
            f \in BOOLEAN, r \in 0..MaxRank}
NoMPI == [mod |-> "absent", initialized |-> FALSE, finalized |-> FALSE, rank |-> 0]

\* MPI.COMM_WORLD.Get_rank(): an error outside the initialized, not finalized
\* runtime.
Get_rank(m) ==
    IF m.initialized /\ ~m.finalized
    THEN [raised |-> FALSE, value |-> m.rank]
    ELSE [raised |-> TRUE, value |-> 0]

NoRankQuery == [ret |-> FALSE, raised |-> FALSE, calls |-> <<>>]

is_mpi_rank_nonzero_no_finalized_check(m) ==
    IF m.mod # "MPI"
    THEN [ret |-> FALSE, raised |-> FALSE, calls |-> <<>>]
    ELSE IF ~m.initialized
    THEN [ret |-> FALSE, raised |-> FALSE, calls |-> <<"Is_initialized">>]
    ELSE LET r == Get_rank(m)
         IN [ret |-> ~r.raised /\ r.value > 0, raised |-> r.raised,
             calls |-> <<"Is_initialized", "Get_rank">>]

is_mpi_rank_nonzero_returns_false(m) == NoRankQuery

\* The result, whether it raised, and the MPI calls it made, in order.
is_mpi_rank_nonzero(m) ==
    IF m.mod # "MPI"
    THEN [ret |-> FALSE, raised |-> FALSE, calls |-> <<>>]
    ELSE IF m.finalized
    THEN [ret |-> FALSE, raised |-> FALSE, calls |-> <<"Is_finalized">>]
    ELSE IF ~m.initialized
    THEN [ret |-> FALSE, raised |-> FALSE,
          calls |-> <<"Is_finalized", "Is_initialized">>]
    ELSE LET r == Get_rank(m)
         IN [ret |-> ~r.raised /\ r.value > 0, raised |-> r.raised,
             calls |-> <<"Is_finalized", "Is_initialized", "Get_rank">>]

\* inspect_and_log up to the DictLogger() call: the two early returns, then
\* os.umask(0o002).  skip: the callback returns at once; umask: the mask after.
UMASK_RELAXED == 2
\* the mask a process starts with (0o022)
InitialUmasks == {18}

inspect_prologue_umask_late(rank_nonzero, toggle, mask) ==
    [skip |-> rank_nonzero \/ DisableRequested(toggle), umask |-> mask]

inspect_prologue_no_toggle_check(rank_nonzero, toggle, mask) ==
    IF rank_nonzero THEN [skip |-> TRUE, umask |-> mask]
    ELSE [skip |-> FALSE, umask |-> UMASK_RELAXED]

inspect_prologue(rank_nonzero, toggle, mask) ==
    IF rank_nonzero THEN [skip |-> TRUE, umask |-> mask]
    ELSE IF DisableRequested(toggle) THEN [skip |-> TRUE, umask |-> mask]
    ELSE [skip |-> FALSE, umask |-> UMASK_RELAXED]

\* ---------------------------------------------------------------- logging
\* logger.setLevel(logging.INFO); Logger.info logs at this level too
INFO == 20
\* logging.disable(level) calls of the host workload: none (0), INFO,
\* CRITICAL (50, its default)
DisableLevels == {0, INFO, 50}

\* Logger.isEnabledFor(level): "if self.manager.disable >= level: False,
\* else level >= self.getEffectiveLevel()"
isEnabledFor(level, manager_disable, effective_level) ==
    IF manager_disable >= level THEN FALSE ELSE level >= effective_level

\* ------------------------------------------------------------- formatting
Digit(d) ==
    CASE d = 0 -> "0" [] d = 1 -> "1" [] d = 2 -> "2" [] d = 3 -> "3"
      [] d = 4 -> "4" [] d = 5 -> "5" [] d = 6 -> "6" [] d = 7 -> "7"
      [] d = 8 -> "8" [] d = 9 -> "9"

\* str(n) and '{}'.format(n) of a non-negative int
RECURSIVE str(_)
str(n) == IF n < 10 THEN Digit(n) ELSE str(n \div 10) \o Digit(n % 10)

\* strftime's zero-padded fields: %H %M %S %m %d (width 2), %f (width 6)
RECURSIVE ZeroPad(_, _)
ZeroPad(n, width) ==
    IF width <= 1 THEN str(n)
    ELSE IF Len(str(n)) >= width THEN str(n)
    ELSE "0" \o ZeroPad(n, width - 1)

\* now.strftime(DATETIME_FMT), DATETIME_FMT = '%m-%d-%Y %H:%M:%S.%f'
Timestamp(now) ==
    ZeroPad(now.month, 2) \o "-" \o ZeroPad(now.day, 2) \o "-" \o str(now.year)
      \o " " \o ZeroPad(now.hour, 2) \o ":" \o ZeroPad(now.minute, 2) \o ":"
      \o ZeroPad(now.second, 2) \o "." \o ZeroPad(now.microsecond, 6)

\* now.strftime('%H.%M.%S.%f')
TimeOfDay(now) ==
    ZeroPad(now.hour, 2) \o "." \o ZeroPad(now.minute, 2) \o "."
      \o ZeroPad(now.second, 2) \o "." \o ZeroPad(now.microsecond, 6)

\* ------------------------------------------------------------------ paths
sep == "/"
curdir == "."
pardir == ".."

\* posixpath.join(a, *p): a component that starts with the separator
\* replaces what was joined before it; the separator is put in unless the
\* path so far is empty or ends with one.
RECURSIVE os_path_join(_, _)
os_path_join(a, p) ==
    IF p = <<>> THEN a
    ELSE LET b == Head(p)
             path == IF startswith(b, sep) THEN b
                     ELSE IF a = "" \/ endswith(a, sep) THEN a \o b
                     ELSE a \o sep \o b
         IN os_path_join(path, Tail(p))

\* the positions of the separators of a path, in order
Separators(p) ==
    LET IsSep(i) == Char(p, i) = sep
    IN SelectSeq([i \in 1..Len(p) |-> i], IsSep)

\* str.rfind(sep) + 1
rfind_sep(p) ==
    LET at == Separators(p) IN IF at = <<>> THEN 0 ELSE Last(at)

\* str.rstrip(sep)
RECURSIVE rstrip_sep(_)
rstrip_sep(s) == IF endswith(s, sep) THEN rstrip_sep(Front(s)) ELSE s

\* posixpath.split(p): "i = p.rfind(sep) + 1; head, tail = p[:i], p[i:];
\* if head and head != sep*len(head): head = head.rstrip(sep)"
os_path_split(p) ==
    LET i == rfind_sep(p)
        head == SubSeq(p, 1, i)
    IN [head |-> IF head # "" /\ rstrip_sep(head) # "" THEN rstrip_sep(head)
                 ELSE head,
        tail |-> SubSeq(p, i + 1, Len(p))]

LOGFILE_ROOT == os_path_join("/projects", <<"datascience", "PyModuleSnooper", "log">>)

\* os.path.join(LOGFILE_ROOT, year, month, day, job_id)
LogDir(now, jobvalue) ==
    os_path_join(LOGFILE_ROOT,
                 <<str(now.year), str(now.month), str(now.day), job_id(jobvalue)>>)

FileNameWithoutPid(host, pid_, now) == host \o "." \o TimeOfDay(now)

\* '{}.{}.{}'.format(socket.gethostname(), os.getpid(), now.strftime(...))
FileName(host, pid_, now) == host \o "." \o str(pid_) \o "." \o TimeOfDay(now)

\* os.path.join(log_dir, fname)
LogPath(dir, host, pid_, now) == os_path_join(dir, <<FileName(host, pid_, now)>>)

\* The names of a path, in order, as the kernel takes them: what stands
\* between separators, empty names dropped.
Components(path) ==
    LET cuts == <<0>> \o Separators(path) \o <<Len(path) + 1>>
        NotEmpty(name) == name # ""
    IN SelectSeq([k \in 1..(Len(cuts) - 1) |->
                    SubSeq(path, cuts[k] + 1, cuts[k + 1] - 1)], NotEmpty)

\* ------------------------------------------------------------------ JSON
\* The characters of the model that are not printable ASCII, each with its
\* code point: tab, newline, form feed, carriage return, backspace, U+0001,
\* DEL, e acute.
BS == ""
SOH == ""
DEL == ""
EACUTE == "é"
OtherChars ==
    {<<"\t", 9>>, <<"\n", 10>>, <<"\f", 12>>, <<"\r", 13>>, <<BS, 8>>,
     <<SOH, 1>>, <<DEL, 127>>, <<EACUTE, 233>>}
ControlChars == {c[1] : c \in {o \in OtherChars : o[2] < 32}}

\* ' ' .. '~', the range of the encoder's pattern [^\ -~], in code point
\* order, without the grave accent (U+0060)
ASCII_32_95 == " !\"#$%&'()*+,-./0123456789:;<=>?@ABCDEFGHIJKLMNOPQRSTUVWXYZ[\\]^_"
ASCII_97_126 == "abcdefghijklmnopqrstuvwxyz{|}~"
Printable ==
    {Char(ASCII_32_95, i) : i \in 1..Len(ASCII_32_95)}
      \cup {Char(ASCII_97_126, i) : i \in 1..Len(ASCII_97_126)}

\* ord(c) of a character that is not printable ASCII
ord(c) == (CHOOSE o \in OtherChars : o[1] = c)[2]

HexDigit(d) == Char("0123456789abcdef", d + 1)
\* '{0:04x}'.format(n)
hex4(n) ==
    HexDigit((n \div 4096) % 16) \o HexDigit((n \div 256) % 16)
      \o HexDigit((n \div 16) % 16) \o HexDigit(n % 16)

\* json.encoder.py_encode_basestring_ascii, one match of ESCAPE_ASCII
\* ([\\"]|[^\ -~]): ESCAPE_DCT[s], or '\\u{0:04x}'.format(ord(s))
ESCAPE_DCT(c) ==
    CASE c = "\\" -> "\\\\"
      [] c = "\"" -> "\\\""
      [] c = BS -> "\\b"
      [] c = "\f" -> "\\f"
      [] c = "\n" -> "\\n"
      [] c = "\r" -> "\\r"
      [] c = "\t" -> "\\t"
      [] OTHER -> "\\u" \o hex4(ord(c))

\* The encoder's string escaping (ensure_ascii): ESCAPE_ASCII.sub(replace, s),
\* every match replaced, the text between the matches kept.
Unescaped == Printable \ {"\\", "\""}
RECURSIVE JsonEscape(_)
JsonEscape(s) ==
    LET matches == {i \in 1..Len(s) : Char(s, i) \notin Unescaped}
    IN IF matches = {} THEN s
       ELSE LET i == CHOOSE k \in matches : \A j \in matches : k <= j
            IN SubSeq(s, 1, i - 1) \o ESCAPE_DCT(Char(s, i))
                 \o JsonEscape(SubSeq(s, i + 1, Len(s)))

JsonString(s) == "\"" \o JsonEscape(s) \o "\""

\* json.dumps raises TypeError on anything but None and str here
Serializable(v) == v.t \in {"None", "str"}

JsonValue(v) == IF v.t = "None" THEN "null" ELSE JsonString(v.v)

\* items: a sequence of already encoded texts
RECURSIVE JsonJoin(_)
JsonJoin(items) ==
    IF items = <<>> THEN ""
    ELSE IF Len(items) = 1 THEN items[1]
    ELSE items[1] \o ", " \o JsonJoin(Tail(items))

JsonList(items) == "[" \o JsonJoin(items) \o "]"

\* pairs: a sequence of [k |-> str, v |-> encoded text], in dict order
JsonDict(pairs) ==
    "{" \o JsonJoin([i \in 1..Len(pairs) |->
                       JsonString(pairs[i].k) \o ": " \o pairs[i].v])
      \o "}"

\* ------------------------------------------------------------ sys.modules
\* name |-> the module's __file__ (NoAttr: the module has no such attribute)
M_sys == [name |-> "sys", file |-> NoAttr]
M_main == [name |-> "__main__", file |-> PyStr("/home/u/run.py")]
M_plugin == [name |-> "plugin",
             file |-> PyStr("/data/my \"libs\"\n\\caf" \o EACUTE \o "\t\r\f"
                              \o BS \o SOH \o DEL \o ".py")]
M_nspkg == [name |-> "nspkg", file |-> PyNone]
M_ext == [name |-> "ext", file |-> PyObject]
Modules == {M_sys, M_main, M_plugin, M_nspkg, M_ext}
\* the names of the modules loaded at start, and of those the workload may load
BaseModules == <<"sys", "__main__", "plugin">>
LaterModules == {"nspkg", "ext"}

\* sys.modules.items() of the loaded modules names, in sys.modules order
sys_modules_items(names) ==
    [i \in 1..Len(names) |-> CHOOSE m \in Modules : m.name = names[i]]

\* { name: module.__file__ for name, module in sys.modules.items()
\*   if hasattr(module, '__file__') }
modules_dict(items) ==
    LET has_file(m) == m.file # NoAttr IN SelectSeq(items, has_file)

SysExecutable == PyStr("/usr/bin/python3")
SysPath == <<PyStr(""), PyStr("/usr/lib/python3")>>

\* cobalt_envs: { k: v for k, v in os.environ.items() if k.startswith('COBALT') }
\* of an environment that holds HOME, the toggle and the job id when set.
cobalt_envs(env) ==
    IF env.COBALT_JOBID = Unset THEN <<>>
    ELSE <<[k |-> "COBALT_JOBID", v |-> PyStr(env.COBALT_JOBID)]>>

\* json.dumps(self._info) with 'modules' set: the text, or TypeError
json_dumps(now, env, mods) ==
    LET bad == \E i \in 1..Len(mods) : ~Serializable(mods[i].file)
        enc(pairs) == [i \in 1..Len(pairs) |-> [k |-> pairs[i].k, v |-> JsonValue(pairs[i].v)]]
        modpairs == [i \in 1..Len(mods) |-> [k |-> mods[i].name, v |-> mods[i].file]]
    IN IF bad THEN [raised |-> TRUE, text |-> ""]
       ELSE [raised |-> FALSE,
             text |-> JsonDict(<<
                [k |-> "timestamp", v |-> JsonString(Timestamp(now))],
                [k |-> "sys.executable", v |-> JsonValue(SysExecutable)],
                [k |-> "sys.path",
                 v |-> JsonList([i \in 1..Len(SysPath) |-> JsonValue(SysPath[i])])],
                [k |-> "cobalt_envs", v |-> JsonDict(enc(cobalt_envs(env)))],
                [k |-> "modules", v |-> JsonDict(enc(modpairs))] >>)]

\* What a failed write may leave behind: any start of the line, from nothing
\* to all but its last character.
Truncations(line) == {SubSeq(line, 1, k) : k \in 0..(Len(line) - 1)}

\* ---------------------------------------------------- reading a log file
\* The characters a scan for JSON object lines has to look at.
JsonMarks == {"\"", "\\", "{", "}", "[", "]"} \cup ControlChars

\* One step of the scan, at the mark at position i.  st is <<depth, mode,
\* closed, at, lines>>: the nesting so far, the place with respect to a
\* string literal ("out", "in", "esc": right after a backslash; "bad" once the
\* text cannot be object lines), whether the object of this line has ended,
\* the position of the mark before, the lines read.  An object starts its
\* line, the newline follows its end at once, and no control character
\* stands raw anywhere else.
JsonBad == <<0, "bad", FALSE, 0, 0>>
JsonStep(text, st, i) ==
    LET c == Char(text, i)
        \* a backslash before a character that is no mark
        plain == st[2] = "esc" /\ i # st[4] + 1
        mode == IF plain THEN "in" ELSE st[2]
    IN IF c = "\n"
       THEN IF mode = "out" /\ st[3] /\ i = st[4] + 1
            THEN <<0, "out", FALSE, i, st[5] + 1>>
            ELSE JsonBad
       ELSE IF c \in ControlChars THEN JsonBad
       ELSE IF plain /\ Char(text, st[4] + 1) \notin {"/", "b", "f", "n", "r", "t", "u"}
       THEN JsonBad
       ELSE IF mode = "esc"
       THEN IF c \in {"\"", "\\"} THEN <<st[1], "in", FALSE, i, st[5]>> ELSE JsonBad
       ELSE IF mode = "in"
       THEN IF c = "\\" THEN <<st[1], "esc", FALSE, i, st[5]>>
            ELSE IF c = "\"" THEN <<st[1], "out", FALSE, i, st[5]>>
            ELSE <<st[1], "in", FALSE, i, st[5]>>
       ELSE IF st[3] \/ c = "\\" THEN JsonBad
       ELSE IF st[1] = 0
       THEN IF c = "{" /\ i = st[4] + 1 THEN <<1, "out", FALSE, i, st[5]>>
            ELSE JsonBad
       ELSE IF c = "\"" THEN <<st[1], "in", FALSE, i, st[5]>>
       ELSE IF c \in {"{", "["} THEN <<st[1] + 1, "out", FALSE, i, st[5]>>
       ELSE <<st[1] - 1, "out", st[1] = 1, i, st[5]>>

\* The outcome of the scan from the n-th mark on: the lines read, -1 when
\* the text is not object lines.
RECURSIVE JsonScan(_, _, _, _)
JsonScan(text, marks, n, st) ==
    IF st[2] = "bad" THEN -1
    ELSE IF n > Len(marks)
    THEN IF st[1] = 0 /\ st[2] = "out" /\ ~st[3] /\ st[4] = Len(text)
         THEN st[5] ELSE -1
    ELSE JsonScan(text, marks, n + 1, JsonStep(text, st, marks[n]))

\* The number of lines of a file's text, when every line is exactly one JSON
\* object followed by a newline and nothing else is in the file; -1 if not.
JsonObjectLines(text) ==
    LET IsMark(i) == Char(text, i) \in JsonMarks
        marks == SelectSeq([i \in 1..Len(text) |-> i], IsMark)
    IN JsonScan(text, marks, 1, <<0, "out", FALSE, 0, 0>>)

\* ------------------------------------------------------------------ state
VARIABLES
    pc,             \* where each process is: "absent" (not part of the run),
                    \* "start", "running", "killed", "atexit", "makedirs",
                    \* "open", "log", "exited"
    environ,        \* os.environ: DISABLE_PYMODULE_SNOOP and COBALT_JOBID
    exitfuncs,      \* the callbacks registered with atexit
    mpi,            \* the state of sys.modules['mpi4py']
    sys_modules,    \* the names of the other loaded modules, in sys.modules
                    \* order
    manager_disable,\* logging: the level of the last logging.disable call
    umask,          \* the process's file-creation mask
    hostname,       \* socket.gethostname()
    pid,            \* os.getpid()
    clock,          \* the readings datetime.now() may give in this run
    now,            \* DictLogger.__init__: now (NoTime before)
    log_dir,        \* DictLogger.__init__: log_dir ("" before)
    log_path,       \* DictLogger.__init__: log_path ("" before)
    mk,             \* os.makedirs: the names of the calls that are open, the
                    \* innermost last, and what that one does next ("probe":
                    \* split and path.exists(head); "mkdir")
    handlers,       \* the handlers of logging.getLogger("PyModuleSnooper"):
                    \* the file each has open
    pending,        \* the text the stream of the handler has taken and not
                    \* yet written to its file (what a failed write left)
    raised,         \* the exception that left inspect_and_log ("none")
    dirs,           \* the file system: directories
    files,          \* the file system: file |-> text
    fs_faulty,      \* the file system may refuse an operation
    import_toggle,  \* history: the toggle as line 100 read it
    calls,          \* history: the number of calls of inspect_and_log
    created,        \* history: what each process created, under which mask
    eexist,         \* history: the makedirs calls whose mkdir found the
                    \* directory there already
    rankq,          \* history: what is_mpi_rank_nonzero did in the callback
    logged,         \* history: the keys of the modules_dict given to
                    \* log_modules
    wrote           \* history: the write of the record: "no", "ok", "failed",
                    \* "disabled"

vars == <<pc, environ, exitfuncs, mpi, sys_modules, manager_disable, umask,
          hostname, pid, clock, now, log_dir, log_path, mk, handlers, pending,
          raised, dirs, files, fs_faulty, import_toggle, calls, created, eexist, rankq,
          logged, wrote>>

procvars == <<environ, exitfuncs, mpi, sys_modules, manager_disable, umask, now,
              log_dir, log_path, mk, handlers, pending, raised, import_toggle,
              calls, created, eexist, rankq, logged, wrote>>

\* ------------------------------------------------------------ file system
\* The walk of the names comps from the directory cur: the directory reached,
\* when every step leads to a directory (the root is <<>>, and is its own
\* parent); else the error of the kernel: ENOTDIR (NotADirectoryError) at a
\* name that is a file, ENOENT (FileNotFoundError) at a name that is not
\* there.
RECURSIVE Walk(_, _)
Walk(comps, cur) ==
    IF comps = <<>> THEN [ok |-> TRUE, at |-> cur, err |-> "none"]
    ELSE LET c == Head(comps)
             to == IF c = curdir THEN cur
                   ELSE IF c = pardir
                   THEN IF cur = <<>> THEN cur ELSE Front(cur)
                   ELSE Append(cur, c)
         IN IF to = <<>> \/ to \in dirs THEN Walk(Tail(comps), to)
            ELSE [ok |-> FALSE, at |-> to,
                  err |-> IF to \in DOMAIN files THEN "NotADirectoryError"
                          ELSE "FileNotFoundError"]

\* What a path names: parent: the directory of its last name is there (err:
\* the error of the walk when it is not); at: the place; kind: what is there
\* ("dir", "file", "none").
Stat(path) ==
    LET comps == Components(path)
    IN IF comps = <<>>
       THEN [parent |-> TRUE, err |-> "none", at |-> <<>>, kind |-> "dir"]
       ELSE LET up == Walk(Front(comps), <<>>)
                name == Last(comps)
            IN IF ~up.ok
               THEN [parent |-> FALSE, err |-> up.err, at |-> up.at, kind |-> "none"]
               ELSE IF name \in {curdir, pardir}
               THEN [parent |-> TRUE, err |-> "none",
                     at |-> Walk(<<name>>, up.at).at, kind |-> "dir"]
               ELSE LET at == Append(up.at, name)
                    IN [parent |-> TRUE, err |-> "none", at |-> at,
                        kind |-> IF at \in dirs THEN "dir"
                                 ELSE IF at \in DOMAIN files THEN "file"
                                 ELSE "none"]

path_exists(path) == Stat(path).kind # "none"
path_isdir(path) == Stat(path).kind = "dir"

\* The place a path names once every ".", ".." and empty name is resolved.
RECURSIVE Resolve(_, _)
Resolve(comps, cur) ==
    IF comps = <<>> THEN cur
    ELSE LET c == Head(comps)
         IN Resolve(Tail(comps),
                    IF c = curdir THEN cur
                    ELSE IF c = pardir
                    THEN IF cur = <<>> THEN cur ELSE Front(cur)
                    ELSE Append(cur, c))

Place(path) == Resolve(Components(path), <<>>)

Prefixes(place, depth) ==
    {SubSeq(place, 1, k) : k \in 1..(IF depth < Len(place) THEN depth ELSE Len(place))}

\* The directories a run may find: those on the way to the log directory of
\* some job, to some depth (4: LOGFILE_ROOT, 6: the month, 7: the day).
DirDepths == {0, 4, 7}
InitialDirs(jobs, depths) ==
    {Prefixes(Place(LogDir(t, j)), d) : t \in Nows, j \in jobs, d \in depths}

register_inverted(toggle, funcs) ==
    IF DisableRequested(toggle) THEN Append(funcs, "inspect_and_log") ELSE funcs

\* if not os.environ.get('DISABLE_PYMODULE_SNOOP', False):
\*     atexit.register(inspect_and_log)
register(toggle, funcs) ==
    IF ~DisableRequested(toggle) THEN Append(funcs, "inspect_and_log") ELSE funcs

InitProcs ==
    /\ mpi = [p \in Procs |-> NoMPI]
    /\ sys_modules = [p \in Procs |-> BaseModules]
    /\ hostname \in [Procs -> Hosts]
    /\ log_path = [p \in Procs |-> ""]
    /\ handlers = [p \in Procs |-> <<>>]
    /\ pending = [p \in Procs |-> ""]
    /\ raised = [p \in Procs |-> "none"]
    /\ files = <<>>
    /\ import_toggle = [p \in Procs |-> Unset]
    /\ created = [p \in Procs |-> {}]
    /\ eexist = [p \in Procs |-> {}]
    /\ logged = [p \in Procs |-> <<>>]
    /\ wrote = [p \in Procs |-> "no"]

\* One process, any environment, any later change of it by the host workload.
\* A file system that may refuse an operation is explored with the job id
\* unset.
Init ==
    /\ InitProcs
    /\ pc = [p \in Procs |-> IF p = 1 THEN "start" ELSE "absent"]
    /\ exitfuncs = [p \in Procs |-> <<>>]
    /\ manager_disable = [p \in Procs |-> 0]
    /\ umask \in [Procs -> InitialUmasks]
    /\ calls = [p \in Procs |-> 0]
    /\ rankq = [p \in Procs |-> NoRankQuery]
    /\ now = [p \in Procs |-> NoTime]
    /\ log_dir = [p \in Procs |-> ""]
    /\ mk = [p \in Procs |-> [phase |-> "probe", stack |-> <<>>]]
    /\ \E d \in EnvValues, j \in JobValues :
          /\ environ = [p \in Procs |->
                          IF p = 1 THEN [DISABLE_PYMODULE_SNOOP |-> d, COBALT_JOBID |-> j]
                          ELSE [DISABLE_PYMODULE_SNOOP |-> Unset, COBALT_JOBID |-> Unset]]
          /\ dirs \in InitialDirs({j}, DirDepths)
          /\ fs_faulty \in IF j = Unset THEN BOOLEAN ELSE {FALSE}
    /\ pid = [p \in Procs |-> 4242]
    /\ clock = {CHOOSE t \in Nows : \A u \in Nows : t.microsecond <= u.microsecond}

\* The processes of one job without mpi4py, each in its callback at the
\* os.makedirs call of DictLogger.__init__: the toggle unset, the mask relaxed,
\* the clock read, on a healthy file system; the month's directory exists, the
\* day's and the job's do not yet.  The processes run one workload, which has
\* disabled logging or has not.  Two processes may have the same pid (a
\* reused pid, a pid namespace of their own); which process has which is
\* immaterial, so the pids are taken in order.
InitJob ==
    /\ InitProcs
    /\ pc = [p \in Procs |-> "makedirs"]
    /\ exitfuncs = [p \in Procs |-> <<>>]
    /\ calls = [p \in Procs |-> 1]
    /\ rankq = [p \in Procs |-> is_mpi_rank_nonzero(NoMPI)]
    /\ \E m \in InitialUmasks :
          umask = [p \in Procs |-> inspect_prologue(FALSE, Unset, m).umask]
    /\ \E l \in {0, 50} : manager_disable = [p \in Procs |-> l]
    /\ environ = [p \in Procs |->
                    [DISABLE_PYMODULE_SNOOP |-> Unset, COBALT_JOBID |-> JobNumber]]
    /\ clock = Nows
    /\ now \in [Procs -> clock]
    /\ log_dir = [p \in Procs |-> LogDir(now[p], JobNumber)]
    /\ mk = [p \in Procs |-> [phase |-> "probe", stack |-> <<log_dir[p]>>]]
    /\ dirs \in InitialDirs({JobNumber}, {6})
    /\ pid \in {f \in [Procs -> Pids] : \A p, q \in Procs : p < q => f[p] <= f[q]}
    /\ fs_faulty = FALSE

\* ---------------------------------------------------------------- actions
\* The interpreter starts and imports sitecustomize.
Import(p) ==
    /\ pc[p] = "start"
    /\ import_toggle' = [import_toggle EXCEPT ![p] = environ[p].DISABLE_PYMODULE_SNOOP]
    /\ exitfuncs' = [exitfuncs EXCEPT
                       ![p] = register(environ[p].DISABLE_PYMODULE_SNOOP, @)]
    /\ pc' = [pc EXCEPT ![p] = "running"]
    /\ UNCHANGED <<environ, mpi, sys_modules, manager_disable, umask, hostname,
                   pid, clock, now, log_dir, log_path, mk, handlers, pending, raised, dirs, files,
                   fs_faulty, calls, created, eexist, rankq, logged, wrote>>

\* The host workload sets or clears the toggle.
SetEnv(p) ==
    /\ pc[p] = "running"
    /\ \E v \in EnvValues \ {environ[p].DISABLE_PYMODULE_SNOOP} :
          environ' = [environ EXCEPT ![p].DISABLE_PYMODULE_SNOOP = v]
    /\ UNCHANGED <<pc, exitfuncs, mpi, sys_modules, manager_disable, umask,
                   hostname, pid, clock, now, log_dir, log_path, mk, handlers, pending, raised,
                   dirs, files, fs_faulty, import_toggle, calls, created, eexist,
                   rankq, logged, wrote>>

\* The host workload imports mpi4py, initializes or finalizes MPI.
SetMPI(p) ==
    /\ pc[p] = "running"
    /\ \E m \in MPIStates \ {mpi[p]} : mpi' = [mpi EXCEPT ![p] = m]
    /\ UNCHANGED <<pc, environ, exitfuncs, sys_modules, manager_disable, umask,
                   hostname, pid, clock, now, log_dir, log_path, mk, handlers, pending, raised,
                   dirs, files, fs_faulty, import_toggle, calls, created, eexist,
                   rankq, logged, wrote>>

\* The host workload imports another module.
ImportModule(p) ==
    /\ pc[p] = "running"
    /\ \E m \in LaterModules \ Range(sys_modules[p]) :
          sys_modules' = [sys_modules EXCEPT ![p] = Append(@, m)]
    /\ UNCHANGED <<pc, environ, exitfuncs, mpi, manager_disable, umask, hostname,
                   pid, clock, now, log_dir, log_path, mk, handlers, pending, raised, dirs, files,
                   fs_faulty, import_toggle, calls, created, eexist, rankq,
                   logged, wrote>>

\* The host workload calls logging.disable(level).
LoggingDisable(p) ==
    /\ pc[p] = "running"
    /\ \E l \in DisableLevels \ {manager_disable[p]} :
          manager_disable' = [manager_disable EXCEPT ![p] = l]
    /\ UNCHANGED <<pc, environ, exitfuncs, mpi, sys_modules, umask, hostname,
                   pid, clock, now, log_dir, log_path, mk, handlers, pending, raised, dirs, files,
                   fs_faulty, import_toggle, calls, created, eexist, rankq,
                   logged, wrote>>

\* Normal interpreter shutdown begins.
Exit(p) ==
    /\ pc[p] = "running"
    /\ pc' = [pc EXCEPT ![p] = "atexit"]
    /\ UNCHANGED <<procvars, hostname, pid, clock, dirs, files, fs_faulty>>

\* SIGKILL, a crash of the interpreter, at any moment of the run or of the
\* shutdown: no callback runs, a running one is not finished, no buffer is
\* flushed.
Kill(p) ==
    /\ pc[p] \in {"running", "atexit", "makedirs", "open", "log"}
    /\ pc' = [pc EXCEPT ![p] = "killed"]
    /\ UNCHANGED <<procvars, hostname, pid, clock, dirs, files, fs_faulty>>

\* atexit calls inspect_and_log: is_mpi_rank_nonzero, the toggle, os.umask,
\* and DictLogger.__init__ up to the os.makedirs call.
RunExitFunc(p) ==
    /\ pc[p] = "atexit"
    /\ exitfuncs[p] # <<>>
    /\ exitfuncs' = [exitfuncs EXCEPT ![p] = Front(@)]
    /\ calls' = [calls EXCEPT ![p] = @ + 1]
    /\ LET q == is_mpi_rank_nonzero(mpi[p])
           pro == inspect_prologue(q.ret, environ[p].DISABLE_PYMODULE_SNOOP, umask[p])
       IN /\ rankq' = [rankq EXCEPT ![p] = q]
          /\ IF q.raised
             THEN /\ raised' = [raised EXCEPT ![p] = "MPI.Exception"]
                  /\ UNCHANGED <<pc, umask, now, log_dir, log_path, mk>>
             ELSE /\ umask' = [umask EXCEPT ![p] = pro.umask]
                  /\ UNCHANGED raised
                  /\ IF pro.skip
                     THEN UNCHANGED <<pc, now, log_dir, log_path, mk>>
                     ELSE /\ \E t \in clock :
                               LET dir == LogDir(t, environ[p].COBALT_JOBID)
                               IN /\ now' = [now EXCEPT ![p] = t]
                                  /\ log_dir' = [log_dir EXCEPT ![p] = dir]
                                  /\ mk' = [mk EXCEPT ![p] = [phase |-> "probe",
                                                             stack |-> <<dir>>]]
                          /\ UNCHANGED log_path
                          /\ pc' = [pc EXCEPT ![p] = "makedirs"]
    /\ UNCHANGED <<environ, mpi, sys_modules, manager_disable, hostname, pid, clock,
                   handlers, pending, dirs, files, fs_faulty, import_toggle, created,
                   eexist, logged, wrote>>

\* No callback of sitecustomize is left: logging.shutdown, which "import
\* logging" registered with atexit before inspect_and_log was, runs after it
\* and flushes and closes every handler (errors are ignored): the stream
\* writes what a failed write left in its buffer, all of it, or, when the
\* file system refuses again, a part of it or nothing.  The process ends.
FinishExit(p) ==
    /\ pc[p] = "atexit"
    /\ exitfuncs[p] = <<>>
    /\ \E part \in {pending[p]} \cup (IF fs_faulty THEN Truncations(pending[p]) ELSE {}) :
          /\ files' = [f \in DOMAIN files |->
                         IF f \in Range(handlers[p])
                         THEN files[f] \o part ELSE files[f]]
          /\ pending' = [pending EXCEPT
                           ![p] = SubSeq(@, Len(part) + 1, Len(@))]
    /\ pc' = [pc EXCEPT ![p] = "exited"]
    /\ UNCHANGED <<environ, exitfuncs, mpi, sys_modules, manager_disable, umask,
                   hostname, pid, clock, now, log_dir, log_path, mk, handlers, raised,
                   dirs, fs_faulty, import_toggle, calls, created, eexist, rankq,
                   logged, wrote>>

\* os.makedirs(name): "head, tail = path.split(name); if not tail: head, tail
\* = path.split(head)"
makedirs_split(name) ==
    LET s == os_path_split(name)
    IN IF s.tail = "" THEN os_path_split(s.head) ELSE s

\* os.makedirs(name): "if head and tail and not path.exists(head)": call
\* makedirs(head) first.
MakedirsProbe(p) ==
    /\ pc[p] = "makedirs"
    /\ mk[p].phase = "probe"
    /\ LET s == makedirs_split(Last(mk[p].stack))
       IN mk' = [mk EXCEPT ![p] =
                   IF s.head # "" /\ s.tail # "" /\ ~path_exists(s.head)
                   THEN [phase |-> "probe", stack |-> Append(@.stack, s.head)]
                   ELSE [phase |-> "mkdir", stack |-> @.stack]]
    /\ UNCHANGED <<pc, environ, exitfuncs, mpi, sys_modules, manager_disable,
                   umask, hostname, pid, clock, now, log_dir, log_path, handlers, pending, raised,
                   dirs, files, fs_faulty, import_toggle, calls, created, eexist,
                   rankq, logged, wrote>>

\* The innermost call returns, or its FileExistsError is passed over by its
\* caller ("except FileExistsError: pass"): the caller goes on, "if tail ==
\* cdir: return", to its own mkdir.  The calls that are open afterwards.
RECURSIVE makedirs_return(_)
makedirs_return(stack) ==
    LET callers == Front(stack)
    IN IF callers = <<>> THEN callers
       ELSE IF makedirs_split(Last(callers)).tail = curdir
       THEN makedirs_return(callers)
       ELSE callers

makedirs_eexist_not_ok(exist_ok, isdir, nested) ==
    IF nested THEN "pass" ELSE "raise"

\* mkdir(name) found name there: "except OSError: if not exist_ok or not
\* path.isdir(name): raise"; a FileExistsError of the nested makedirs(head) is
\* passed over by its caller.
makedirs_eexist(exist_ok, isdir, nested) ==
    IF exist_ok /\ isdir THEN "pass"
    ELSE IF nested THEN "pass"
    ELSE "raise"

\* os.makedirs(name): mkdir(name, mode), then back to the caller.
MakedirsMkdir(p) ==
    /\ pc[p] = "makedirs"
    /\ mk[p].phase = "mkdir"
    /\ LET name == Last(mk[p].stack)
           at == Stat(name)
           open == makedirs_return(mk[p].stack)
           returns == /\ pc' = [pc EXCEPT ![p] = IF open = <<>> THEN "open" ELSE @]
                      /\ mk' = [mk EXCEPT ![p] = [phase |-> "mkdir", stack |-> open]]
                      /\ UNCHANGED raised
           raises(e) == /\ raised' = [raised EXCEPT ![p] = e]
                        /\ pc' = [pc EXCEPT ![p] = "atexit"]
                        /\ UNCHANGED mk
       IN IF ~at.parent
          THEN /\ raises(at.err)
               /\ UNCHANGED <<dirs, created, eexist>>
          ELSE IF at.kind # "none"
          THEN /\ IF makedirs_eexist(TRUE, at.kind = "dir", Len(mk[p].stack) > 1) = "pass"
                  THEN /\ returns
                       /\ eexist' = [eexist EXCEPT ![p] = @ \cup {name}]
                  ELSE /\ raises("FileExistsError")
                       /\ UNCHANGED eexist
               /\ UNCHANGED <<dirs, created>>
          ELSE \/ /\ dirs' = dirs \cup {at.at}
                  /\ created' = [created EXCEPT
                                   ![p] = @ \cup {[kind |-> "dir", path |-> at.at,
                                               umask |-> umask[p]]}]
                  /\ returns
                  /\ UNCHANGED eexist
               \/ /\ fs_faulty
                  /\ raises("PermissionError")
                  /\ UNCHANGED <<dirs, created, eexist>>
    /\ UNCHANGED <<environ, exitfuncs, mpi, sys_modules, manager_disable, umask,
                   hostname, pid, clock, now, log_dir, log_path, handlers, pending, files,
                   fs_faulty, import_toggle, calls, rankq, logged, wrote>>

\* logging.FileHandler(log_path): open(log_path, 'a'); logger.addHandler.
OpenLog(p) ==
    /\ pc[p] = "open"
    /\ LET path == LogPath(log_dir[p], hostname[p], pid[p], now[p])
           at == Stat(path)
           raises(e) == /\ raised' = [raised EXCEPT ![p] = e]
                        /\ pc' = [pc EXCEPT ![p] = "atexit"]
                        /\ UNCHANGED <<files, created, handlers>>
       IN /\ log_path' = [log_path EXCEPT ![p] = path]
          /\ IF ~at.parent THEN raises(at.err)
             ELSE IF at.kind = "dir" THEN raises("IsADirectoryError")
             ELSE \/ /\ files' = IF at.kind = "file" THEN files
                                 ELSE files @@ (at.at :> "")
                     /\ created' = [created EXCEPT
                                      ![p] = IF at.kind = "file" THEN @
                                             ELSE @ \cup {[kind |-> "file",
                                                           path |-> at.at,
                                                           umask |-> umask[p]]}]
                     /\ handlers' = [handlers EXCEPT ![p] = Append(@, at.at)]
                     /\ pc' = [pc EXCEPT ![p] = "log"]
                     /\ UNCHANGED raised
                  \/ /\ fs_faulty
                     /\ raises("PermissionError")
    /\ UNCHANGED <<environ, exitfuncs, mpi, sys_modules, manager_disable, umask,
                   hostname, pid, clock, now, log_dir, mk, pending, dirs, fs_faulty,
                   import_toggle, calls, eexist, rankq, logged, wrote>>

\* modules_dict, logger.log_modules(modules_dict): json.dumps, then
\* Logger.info: when the logger is enabled for INFO, every handler of the
\* logger appends the text and a newline to its file; an error of the write
\* stays inside logging (Handler.handleError), and what was not written stays
\* in the buffer of the stream.
LogModules(p) ==
    /\ pc[p] = "log"
    /\ LET mods == modules_dict(sys_modules_items(sys_modules[p]))
           d == json_dumps(now[p], environ[p], mods)
           line == d.text \o "\n"
       IN /\ logged' = [logged EXCEPT ![p] = [i \in 1..Len(mods) |-> mods[i].name]]
          /\ IF d.raised
             THEN /\ raised' = [raised EXCEPT ![p] = "TypeError"]
                  /\ UNCHANGED <<files, wrote, pending>>
             ELSE IF ~isEnabledFor(INFO, manager_disable[p], INFO)
             THEN /\ wrote' = [wrote EXCEPT ![p] = "disabled"]
                  /\ UNCHANGED <<raised, files, pending>>
             ELSE /\ UNCHANGED raised
                  /\ \/ /\ files' = [f \in DOMAIN files |->
                                       IF f \in Range(handlers[p])
                                       THEN files[f] \o line ELSE files[f]]
                        /\ wrote' = [wrote EXCEPT ![p] = "ok"]
                        /\ UNCHANGED pending
                     \/ /\ fs_faulty
                        /\ \E part \in Truncations(line) :
                              /\ files' = [f \in DOMAIN files |->
                                             IF f \in Range(handlers[p])
                                             THEN files[f] \o part ELSE files[f]]
                              /\ pending' = [pending EXCEPT
                                               ![p] = SubSeq(line, Len(part) + 1, Len(line))]
                        /\ wrote' = [wrote EXCEPT ![p] = "failed"]
    /\ pc' = [pc EXCEPT ![p] = "atexit"]
    /\ UNCHANGED <<environ, exitfuncs, mpi, sys_modules, manager_disable, umask,
                   hostname, pid, clock, now, log_dir, log_path, mk, handlers, dirs,
                   fs_faulty, import_toggle, calls, created, eexist, rankq>>

Next ==
    \E p \in Procs :
        \/ Import(p)
        \/ SetEnv(p)
        \/ SetMPI(p)
        \/ ImportModule(p)
        \/ LoggingDisable(p)
        \/ Exit(p)
        \/ Kill(p)
        \/ RunExitFunc(p)
        \/ FinishExit(p)
        \/ MakedirsProbe(p)
        \/ MakedirsMkdir(p)
        \/ OpenLog(p)
        \/ LogModules(p)

Spec == Init /\ [][Next]_vars

\* The steps of the callbacks of a job.  A process that is killed takes no
\* further step and changes nothing, so what a kill leaves behind (directories
\* without a file, an empty file) is a state in which that process has not
\* taken its next step yet.
NextJob ==
    \E p \in Procs :
        \/ MakedirsProbe(p)
        \/ MakedirsMkdir(p)
        \/ OpenLog(p)
        \/ LogModules(p)

SpecJob == InitJob /\ [][NextJob]_vars

\* ------------------------------------------------------------------ claims
ToggleSet(value) == value \in EnvValues \ {Unset, ""}
RankPositive(m) == m.mod = "MPI" /\ m.initialized /\ ~m.finalized /\ m.rank > 0
RankZero(m) == m.mod = "MPI" /\ m.initialized /\ ~m.finalized /\ m.rank = 0
RankUndetermined(m) == m.mod # "MPI" \/ ~m.initialized \/ m.finalized
ShuttingDown(p) == pc[p] \in {"atexit", "makedirs", "open", "log", "exited"}
Registrations(p) == Len(exitfuncs[p]) + calls[p]
FilesCreated(p) == {e \in created[p] : e.kind = "file"}
Unsuppressed(p) ==
    /\ import_toggle[p] = Unset
    /\ environ[p].DISABLE_PYMODULE_SNOOP = Unset
    /\ RankZero(mpi[p]) \/ RankUndetermined(mpi[p])

\* C1 as stated: a process that ends normally with the toggle unset at import
\* and at shutdown, and rank 0 or undetermined, has registered the callback
\* once, run it once and created exactly one log file.
C1_ExactlyOneLogFile ==
    \A p \in Procs :
        pc[p] = "exited" /\ Unsuppressed(p)
        => /\ Registrations(p) = 1
           /\ calls[p] = 1
           /\ Cardinality(FilesCreated(p)) = 1

\* C1 amended: such a process has registered the callback once and run it once,
\* and has created one log file when the directory creation and the opening of
\* the file succeeded, none when either was refused; no process ever registers
\* or runs the callback twice or creates two log files.
C1_OneLogFileUnlessRefused ==
    \A p \in Procs :
        /\ Registrations(p) <= 1
        /\ Cardinality(FilesCreated(p)) <= 1
        /\ pc[p] = "exited" /\ Unsuppressed(p)
           => /\ Registrations(p) = 1
              /\ calls[p] = 1
              /\ Cardinality(FilesCreated(p))
                   = IF raised[p] = "PermissionError" THEN 0 ELSE 1

C1_Witness ==
    \E p \in Procs :
        /\ pc[p] = "exited" /\ Unsuppressed(p)
        /\ calls[p] = 1 /\ wrote[p] = "ok"
        /\ Cardinality(FilesCreated(p)) = 1

\* C2: a process whose toggle is truthy at import never registers or runs the
\* callback, and a process whose toggle is truthy at shutdown creates no log
\* file and no directory, also when the callback was registered and runs.
C2_ToggleSuppresses ==
    \A p \in Procs :
        /\ pc[p] \notin {"absent", "start"} /\ ToggleSet(import_toggle[p])
           => Registrations(p) = 0 /\ created[p] = {}
        /\ ShuttingDown(p) /\ ToggleSet(environ[p].DISABLE_PYMODULE_SNOOP)
           => created[p] = {} /\ handlers[p] = <<>> /\ pc[p] \in {"atexit", "exited"}

C2_Witness ==
    \E p \in Procs :
        /\ pc[p] = "exited" /\ calls[p] = 1
        /\ import_toggle[p] = Unset
        /\ environ[p].DISABLE_PYMODULE_SNOOP = "0"
        /\ ~RankPositive(mpi[p])
        /\ created[p] = {}

\* C3: a process whose MPI is initialized and not finalized at shutdown, with
\* rank > 0, creates no log file (and no directory), whatever the toggle is.
C3_NonzeroRankSuppresses ==
    \A p \in Procs :
        ShuttingDown(p) /\ RankPositive(mpi[p])
        => created[p] = {} /\ handlers[p] = <<>> /\ pc[p] \in {"atexit", "exited"}

C3_Witness ==
    \E p \in Procs :
        /\ pc[p] = "exited" /\ calls[p] = 1
        /\ RankPositive(mpi[p])
        /\ environ[p].DISABLE_PYMODULE_SNOOP = Unset
        /\ created[p] = {}

\* C4 as stated: no exception ever leaves inspect_and_log, whatever step of
\* the collector fails.
C4_NothingEscapes == \A p \in Procs : raised[p] = "none"

\* C5: when mpi4py is absent or has no MPI attribute, or MPI is not
\* initialized, or MPI is finalized, the rank detection of the callback does
\* not raise, returns False and never calls Get_rank.
C5_RankDetectionFailSafe ==
    \A p \in Procs :
        calls[p] >= 1 /\ RankUndetermined(mpi[p])
        => /\ ~rankq[p].raised
           /\ raised[p] # "MPI.Exception"
           /\ ~rankq[p].ret
           /\ "Get_rank" \notin Range(rankq[p].calls)

C5_Witness ==
    \E p \in Procs :
        /\ calls[p] = 1
        /\ mpi[p].mod = "MPI" /\ mpi[p].finalized /\ mpi[p].rank > 0
        /\ rankq[p].calls = <<"Is_finalized">>
        /\ pc[p] \in {"makedirs", "open", "log"}

\* C6 as stated: every file a finished invocation of the collector has opened
\* for its record holds exactly one JSON object on one newline-terminated line
\* and nothing else.
C6_OneObjectPerFile ==
    \A p \in Procs :
        pc[p] = "exited"
        => \A f \in Range(handlers[p]) : JsonObjectLines(files[f]) = 1

\* C7: no interleaving of the directory creations of the processes of a job
\* makes one of them raise: each finds or makes its directory, also when
\* another process made it first.
C7_ConcurrentMakedirs ==
    \A p \in Procs :
        /\ raised[p] = "none"
        /\ pc[p] \in {"open", "log"} \/ handlers[p] # <<>> => path_isdir(log_dir[p])

C7_Witness ==
    \E p, q \in Procs :
        /\ p # q
        /\ log_dir[p] # "" /\ log_dir[p] = log_dir[q]
        /\ wrote[p] # "no" /\ wrote[q] # "no"
        /\ \E name \in eexist[p] : name # log_dir[p]
        /\ \E e \in created[q] : e.kind = "dir"

\* C8: two processes of one job on one host with different pids, whose
\* snapshots fall in the same second, have different log paths and log
\* through different files.
C8_DistinctLogPaths ==
    \A p, q \in Procs :
        /\ p # q
        /\ log_path[p] # "" /\ log_path[q] # ""
        /\ hostname[p] = hostname[q]
        /\ pid[p] # pid[q]
        /\ environ[p].COBALT_JOBID = environ[q].COBALT_JOBID
        /\ [now[p] EXCEPT !.microsecond = 0] = [now[q] EXCEPT !.microsecond = 0]
        => /\ log_path[p] # log_path[q]
           /\ Range(handlers[p]) \cap Range(handlers[q]) = {}

C8_Witness ==
    \E p, q \in Procs :
        /\ pid[p] # pid[q] /\ hostname[p] = hostname[q]
        /\ now[p] # NoTime /\ now[p] = now[q]
        /\ wrote[p] = "ok" /\ wrote[q] = "ok"
        /\ Place(log_path[p]) \in DOMAIN files /\ Place(log_path[q]) \in DOMAIN files

\* C9 as stated: the modules mapping given to the record holds exactly the
\* loaded modules whose origin is a path, each with that path.
C9_OnlyConcretePaths ==
    \A p \in Procs :
        logged[p] # <<>>
        => \A m \in Range(sys_modules_items(sys_modules[p])) :
              m.name \in Range(logged[p]) <=> m.file.t = "str"

\* C10: whatever a process creates, it creates under the relaxed mask, set
\* before; a suppressed invocation leaves the mask as it was.
C10_UmaskBeforeCreation ==
    \A p \in Procs :
        /\ \A e \in created[p] : e.umask = UMASK_RELAXED
        /\ pc[p] \in {"makedirs", "open", "log"} => umask[p] = UMASK_RELAXED
        /\ /\ calls[p] >= 1
           /\ ToggleSet(environ[p].DISABLE_PYMODULE_SNOOP) \/ RankPositive(mpi[p])
           => umask[p] \in InitialUmasks

C10_Witness ==
    \E p \in Procs :
        /\ pc[p] = "exited"
        /\ \E e \in created[p] : e.kind = "dir"
        /\ \E e \in created[p] : e.kind = "file"
        /\ umask[p] = UMASK_RELAXED

=============================================================================
